---- MODULE Spec2Model ----
(***************************************************************************)
(* Model of src/main.py: the Sequential Trajectory Mapper                  *)
(* (MapClickHandler and TrajectoryMapApp).                                 *)
(*                                                                         *)
(* Coordinates are integers in units of 1e-4 degree, so 40.7128 degrees is *)
(* 407128 and the latitude range [-90, 90] is [-900000, 900000].           *)
(*                                                                         *)
(* The program is single-threaded and event-driven.  A handler runs from   *)
(* its entry to its return in one step, except where the code itself       *)
(* re-enters the event loop: QMessageBox.question (lines 331 and 375)      *)
(* runs a nested, modal event loop until the operator answers, and         *)
(* QApplication.processEvents() (line 397) dispatches the pending events.  *)
(* A handler suspended at such a place is a frame on `stack`; the events   *)
(* the nested loop can dispatch are the actions enabled for that frame.    *)
(***************************************************************************)
EXTENDS Integers, Sequences, FiniteSets, TLC

VARIABLES
    completed_trajectories,  \* line 35: list of completed trajectories
    current_trajectory,      \* line 36: trajectory being drawn
    is_drawing_mode,         \* line 37
    click_mode_enabled,      \* line 38
    click_mode_checkbox,     \* line 130-131: the check box's checked state
    map_style,               \* line 112-113: map_style_combo.currentText()
    trajectory_count_label,  \* line 161: <<trajectories, current points>>
    click_status_label,      \* line 136
    info_label,              \* line 196: the one-line status message
    current_map,             \* line 219: the folium map being built; of its
                             \* children it holds the search marker and the
                             \* trajectories drawn (map_children lists them)
    map_view,                \* line 66 / 585: the map whose saved document
                             \* the view has loaded
    stack,                   \* handlers suspended in a nested event loop
    alive,                   \* FALSE once an exception escaped a slot
    save_can_fail,           \* the environment: whether map.save (line 584)
                             \* can raise in this run
    page,                    \* lines 230-265: the document loaded in the view
                             \* as its click script sees it (NoPage where a
                             \* specification does not follow the script)
    op,                      \* the handler (or continuation) of the last step
    dialog,                  \* the QMessageBox it opened, NoDialog if none
    rendered                 \* whether it reached map_view.setUrl (line 585)

vars == <<completed_trajectories, current_trajectory, is_drawing_mode,
          click_mode_enabled, click_mode_checkbox, map_style,
          trajectory_count_label, click_status_label, info_label,
          current_map, map_view, stack, alive, save_can_fail, page, op,
          dialog, rendered>>

store == <<completed_trajectories, current_trajectory, click_mode_enabled>>

labels == <<trajectory_count_label, click_status_label, info_label>>

----------------------------------------------------------------------------
(* Bounds of the model *)

\* longest current trajectory the model builds
MaxPoints == 2

\* most completed trajectories the model archives
MaxTrajectories == 2

\* deepest nesting of event loops (suspended handlers) the model follows
MaxDepth == 1

----------------------------------------------------------------------------
(* Inputs *)

\* Texts the operator may leave in the latitude field (lat_input).
LatTexts == {"", "abc", " 40.0 ", "91.0"}

\* Texts the operator may leave in the longitude field (lon_input).
LngTexts == {"", "-74.0", "181.0"}

\* Texts the operator may leave in the place field (place_input).
PlaceTexts == {"  ", "Times Square"}

\* Latitudes a map click can deliver (line 249, e.latlng.lat): the map's
\* projection keeps the latitude of a click inside the valid range.
ClickLats == {400000}

\* Longitudes a map click can deliver (line 249, e.latlng.lng): the map
\* repeats the world horizontally and reports the longitude of a click on
\* a repeated copy unwrapped, so 190 degrees is a value a click delivers.
ClickLngs == {-740000, 1900000}

\* What the geocoder can answer (line 400): a location, None, or an
\* exception (a lookup error or the 10 s timeout).
TimesSquare == [latitude |-> 407580, longitude |-> -739855,
                address |-> "Times Square, New York"]

GeocodeResults == {<<"found", TimesSquare>>, <<"none">>, <<"error">>}

\* Qt.Unchecked and Qt.Checked, the values stateChanged delivers (line 132).
QtUnchecked == "Qt.Unchecked"

QtChecked == "Qt.Checked"

\* QMessageBox.Yes and QMessageBox.No (lines 334, 378).
Replies == {"Yes", "No"}

NoDialog == <<"none">>

----------------------------------------------------------------------------
(* Pure helpers *)

\* str.strip() on the texts of the model (lines 298, 299, 390)
strip(t) ==
    CASE t = " 40.0 " -> "40.0"
      [] t = "  " -> ""
      [] OTHER -> t

\* whether float(t) returns (lines 305, 306); it raises ValueError otherwise
float_parses(t) == t \in {"40.0", "91.0", "-74.0", "181.0"}

\* float(t) for a text it parses (lines 305, 306), in 1e-4 degree
float(t) ==
    CASE t = "40.0" -> 400000
      [] t = "91.0" -> 910000
      [] t = "-74.0" -> -740000
      [] t = "181.0" -> 1810000

\* line 309: -90 <= lat <= 90
lat_in_range(lat) == -900000 <= lat /\ lat <= 900000

\* line 311: -180 <= lng <= 180
lng_in_range(lng) == -1800000 <= lng /\ lng <= 1800000

\* lines 41-45
trajectory_colors ==
    <<"red", "blue", "green", "purple", "orange",
      "darkred", "pink", "gray", "darkblue", "darkgreen",
      "cadetblue", "darkpurple", "lightred", "beige", "lightblue">>

\* a list with x put in front, not at the end
prepend(list, x) == <<x>> \o list

\* list.append (lines 276, 340)
append(list, x) == Append(list, x)

----------------------------------------------------------------------------
(* Scene: the folium map object and what is added to it *)

\* lines 427-445: the tile layer of the selected style
get_map_tiles(style) ==
    CASE style = "Satellite View" ->
            [tiles |-> "World_Imagery", attr |-> "Tiles (c) Esri"]
      [] style = "Terrain" ->
            [tiles |-> "World_Terrain_Base", attr |-> "Tiles (c) Esri"]
      [] OTHER ->
            [tiles |-> "OpenStreetMap", attr |-> "None"]

\* lines 447-463: a new, empty map at center and zoom, in the selected style
create_map_at_location(center, zoom, style) ==
    [location |-> center, zoom_start |-> zoom,
     tiles |-> get_map_tiles(style).tiles,
     attr |-> get_map_tiles(style).attr,
     marker |-> <<>>, completed |-> <<>>, current |-> <<>>,
     click_script |-> FALSE]

\* a map that is published without the click-forwarding script
without_click_handler(map) == map

\* lines 228-268: the click-forwarding script is added to the map's html
add_map_click_handler(map) == [map EXCEPT !.click_script = TRUE]

\* the marker of a point when the test for the last point comes first
point_marker_end_first(trajectory, index, completed, i, color) ==
    IF completed
    THEN IF i = Len(trajectory)
         THEN [kind |-> "Marker", at |-> trajectory[i],
               icon |-> <<"red", "stop">>, color |-> "None", radius |-> 0,
               tooltip |-> <<"End of Trajectory", index + 1>>]
         ELSE IF i = 1
         THEN [kind |-> "Marker", at |-> trajectory[i],
               icon |-> <<"green", "play">>, color |-> "None", radius |-> 0,
               tooltip |-> <<"Start of Trajectory", index + 1>>]
         ELSE [kind |-> "CircleMarker", at |-> trajectory[i],
               icon |-> <<"None", "None">>, color |-> color, radius |-> 5,
               tooltip |-> <<"Point", i>>]
    ELSE [kind |-> "CircleMarker", at |-> trajectory[i],
          icon |-> <<"None", "None">>, color |-> "#FF6600", radius |-> 8,
          tooltip |-> <<"Current Point", i>>]

\* lines 510-550: the marker drawn for point number i (1-based here, the
\* code's i + 1) of a trajectory with 0-based index `index`
point_marker(trajectory, index, completed, i, color) ==
    IF completed
    THEN IF i = 1
         THEN [kind |-> "Marker", at |-> trajectory[i],
               icon |-> <<"green", "play">>, color |-> "None", radius |-> 0,
               tooltip |-> <<"Start of Trajectory", index + 1>>]
         ELSE IF i = Len(trajectory)
         THEN [kind |-> "Marker", at |-> trajectory[i],
               icon |-> <<"red", "stop">>, color |-> "None", radius |-> 0,
               tooltip |-> <<"End of Trajectory", index + 1>>]
         ELSE [kind |-> "CircleMarker", at |-> trajectory[i],
               icon |-> <<"None", "None">>, color |-> color, radius |-> 5,
               tooltip |-> <<"Point", i>>]
    ELSE [kind |-> "CircleMarker", at |-> trajectory[i],
          icon |-> <<"None", "None">>, color |-> "#FF6600", radius |-> 8,
          tooltip |-> <<"Current Point", i>>]

\* lines 553-572: the line through the points of a trajectory
trajectory_line(trajectory, index, completed, color) ==
    IF completed
    THEN [kind |-> "PolyLine", at |-> trajectory,
          icon |-> <<"None", "None">>, color |-> color, radius |-> 0,
          tooltip |-> <<"Trajectory", index + 1, Len(trajectory), "solid">>]
    ELSE [kind |-> "PolyLine", at |-> trajectory,
          icon |-> <<"None", "None">>, color |-> "#FF6600", radius |-> 0,
          tooltip |-> <<"Current Trajectory", Len(trajectory), "10, 5">>]

\* a scene in which every trajectory takes the first colour of the palette
add_single_trajectory_in_first_color(trajectory, index, completed) ==
    IF Len(trajectory) = 0
    THEN <<>>
    ELSE LET color == trajectory_colors[1]
             markers ==
                 [i \in 1..Len(trajectory) |->
                     point_marker(trajectory, index, completed, i, color)]
         IN  IF Len(trajectory) > 1
             THEN Append(markers,
                         trajectory_line(trajectory, index, completed, color))
             ELSE markers

\* lines 502-572: what one trajectory adds to the map, in the order added
add_single_trajectory_to_map(trajectory, index, completed) ==
    IF Len(trajectory) = 0
    THEN <<>>
    ELSE LET color ==
                 trajectory_colors[(index % Len(trajectory_colors)) + 1]
             markers ==
                 [i \in 1..Len(trajectory) |->
                     point_marker(trajectory, index, completed, i, color)]
         IN  IF Len(trajectory) > 1
             THEN Append(markers,
                         trajectory_line(trajectory, index, completed, color))
             ELSE markers

\* the completed trajectories added from the last index down to the first
RECURSIVE add_completed_in_reverse(_, _)
add_completed_in_reverse(completed, n) ==
    IF n = 0
    THEN <<>>
    ELSE add_single_trajectory_to_map(completed[n], n - 1, TRUE)
         \o add_completed_in_reverse(completed, n - 1)

\* line 495-496: the completed trajectories from index 0 to n - 1
RECURSIVE add_completed_to_map(_, _)
add_completed_to_map(completed, n) ==
    IF n = 0
    THEN <<>>
    ELSE add_completed_to_map(completed, n - 1)
         \o add_single_trajectory_to_map(completed[n], n - 1, TRUE)

\* a map that keeps the trajectories of the map before it when the store
\* has none to draw
add_previous_trajectories_to_map(map, completed, current) ==
    IF completed = <<>> /\ current = <<>>
    THEN [map EXCEPT !.completed = current_map.completed,
                     !.current = current_map.current]
    ELSE [map EXCEPT !.completed = completed, !.current = current]

\* lines 492-500: the map with every trajectory added to it
add_all_trajectories_to_map(map, completed, current) ==
    [map EXCEPT !.completed = completed, !.current = current]

\* lines 407-412: the one-off marker of a search result
search_marker(location) ==
    [kind |-> "Marker", at |-> <<location.latitude, location.longitude>>,
     icon |-> <<"blue", "search">>, color |-> "None", radius |-> 0,
     tooltip |-> <<"Search Result">>]

\* lines 412, 496, 500: the children of a map in the order they were
\* added: the search marker if any, the completed trajectories by index,
\* then the current trajectory if it has points
map_children(map) ==
    map.marker
    \o add_completed_to_map(map.completed, Len(map.completed))
    \o (IF Len(map.current) > 0
        THEN add_single_trajectory_to_map(map.current, Len(map.completed),
                                          FALSE)
        ELSE <<>>)

\* a centre that follows the first point of the current trajectory
center_on_first_point(completed, current) ==
    IF Len(current) > 0
    THEN current[1]
    ELSE IF Len(completed) > 0 /\ Len(completed[Len(completed)]) > 0
    THEN completed[Len(completed)][1]
    ELSE <<407128, -740060>>

\* lines 468-478: where the refreshed map is centred
refresh_center(completed, current) ==
    IF Len(current) > 0
    THEN current[Len(current)]
    ELSE IF Len(completed) > 0 /\ Len(completed[Len(completed)]) > 0
    THEN completed[Len(completed)][Len(completed[Len(completed)])]
    ELSE <<407128, -740060>>

\* lines 469-478: its zoom
refresh_zoom(completed, current) ==
    IF Len(current) > 0
    THEN 15
    ELSE IF Len(completed) > 0 /\ Len(completed[Len(completed)]) > 0
    THEN 15
    ELSE 12

\* a refresh that leaves the current trajectory out of the scene
refreshed_without_current(completed, current, style) ==
    add_map_click_handler(
        add_all_trajectories_to_map(
            create_map_at_location(refresh_center(completed, current),
                                   refresh_zoom(completed, current), style),
            completed, <<>>))

\* lines 465-487: the map refresh_map builds before it saves it
refreshed_map(completed, current, style) ==
    add_map_click_handler(
        add_all_trajectories_to_map(
            create_map_at_location(refresh_center(completed, current),
                                   refresh_zoom(completed, current), style),
            completed, current))

\* lines 404-416: the map search_place builds for a found location
search_map(location, completed, current, style) ==
    add_map_click_handler(
        add_all_trajectories_to_map(
            [create_map_at_location(
                 <<location.latitude, location.longitude>>, 15, style)
             EXCEPT !.marker = <<search_marker(location)>>],
            completed, current))

\* lines 217-225: the map create_initial_map builds
initial_map ==
    add_map_click_handler(
        [location |-> <<407128, -740060>>, zoom_start |-> 12,
         tiles |-> "OpenStreetMap", attr |-> "None",
         marker |-> <<>>, completed |-> <<>>, current |-> <<>>,
         click_script |-> FALSE])

\* lines 574-579: the text of trajectory_count_label
status_text(completed, current) == <<Len(completed), Len(current)>>

----------------------------------------------------------------------------
(* The event loop *)

\* Whether map.save (line 584) succeeds: where the file write can fail,
\* each save succeeds or raises.
SaveOutcomes == IF save_can_fail THEN BOOLEAN ELSE {TRUE}

\* a handler suspended in a nested event loop, with the locals it holds
Frame(h, a, b) == [h |-> h, a |-> a, b |-> b]

top == stack[Len(stack)]

pop == SubSeq(stack, 1, Len(stack) - 1)

\* A modal QMessageBox.question is open (lines 331, 375).
InPrompt(h) == alive /\ Len(stack) > 0 /\ top.h = h

\* QApplication.processEvents() is dispatching (line 397).
InPump == alive /\ Len(stack) > 0 /\ top.h = "search_place"

\* The operator's input reaches the widgets: the main event loop runs, or
\* processEvents dispatches it; a modal message box keeps it away.
InputEnabled == alive /\ (stack = <<>> \/ InPump)

\* The script of the loaded document (lines 243-252) calls the slot, and
\* a call of the web channel reaches its slot in every event loop (line 50).
BridgeEnabled == alive /\ map_view.click_script

\* lines 29-53: the state __init__ leaves, the first map saved and shown
Constructed ==
    /\ completed_trajectories = <<>>
    /\ current_trajectory = <<>>
    /\ is_drawing_mode = TRUE
    /\ click_mode_enabled = TRUE
    /\ click_mode_checkbox = TRUE
    /\ map_style = "OpenStreetMap"
    /\ trajectory_count_label = <<0, 0>>
    /\ click_status_label = "ENABLED"
    /\ info_label = <<"ready">>
    /\ current_map = initial_map
    /\ map_view = initial_map
    /\ stack = <<>>
    /\ alive = TRUE
    /\ op = "__init__"
    /\ dialog = NoDialog
    /\ rendered = TRUE

\* the value of page in the specifications that do not follow the script
NoPage == <<"none">>

\* a run in which every save of the map succeeds
Init == Constructed /\ save_can_fail = FALSE /\ page = NoPage

\* a run in which a save of the map can fail
InitFaults == Constructed /\ save_can_fail = TRUE /\ page = NoPage

----------------------------------------------------------------------------
(* Rendering *)

\* lines 581-585: save the map and load it in the view; when the save
\* raises, setUrl is not reached and the view keeps its document
save_and_display_map(map, ok) ==
    /\ map_view' = (IF ok THEN map ELSE map_view)
    /\ rendered' = ok

\* lines 465-490, called from a slot that catches nothing: an exception of
\* the save leaves the slot, which ends the process
refresh_map(completed, current, style, ok) ==
    /\ current_map' = refreshed_map(completed, current, style)
    /\ save_and_display_map(current_map', ok)
    /\ alive' = ok

\* a handler that returns before it touches the map
no_render ==
    /\ UNCHANGED <<current_map, map_view, alive>>
    /\ rendered' = FALSE

----------------------------------------------------------------------------
(* Adding points *)

\* lines 283-290: the message of a point added as number point_count
point_added_text(point_count, lat, lng) ==
    IF point_count = 1
    THEN <<"first point added", point_count, lat, lng>>
    ELSE <<"point added", point_count, lat, lng>>

\* lines 275-293: the point is appended, reported and drawn
append_trajectory_point(lat, lng, ok) ==
    /\ Len(current_trajectory) < MaxPoints
    /\ current_trajectory' = append(current_trajectory, <<lat, lng>>)
    /\ trajectory_count_label' =
           status_text(completed_trajectories, current_trajectory')
    /\ info_label' = point_added_text(Len(current_trajectory'), lat, lng)
    /\ refresh_map(completed_trajectories, current_trajectory', map_style,
                   ok)

\* lines 270-293
add_trajectory_point(lat, lng, ok) ==
    IF ~is_drawing_mode \/ ~click_mode_enabled
    THEN /\ UNCHANGED <<current_trajectory, trajectory_count_label,
                        info_label>>
         /\ no_render
    ELSE append_trajectory_point(lat, lng, ok)

\* the slot with no test of the click mode on its way to the append
on_map_click_ungated(lat, lng, ok) ==
        /\ BridgeEnabled
        /\ op' = "on_map_click"
        /\ dialog' = NoDialog
        /\ append_trajectory_point(lat, lng, ok)
        /\ UNCHANGED <<completed_trajectories, is_drawing_mode, save_can_fail, page,
                       click_mode_enabled, click_mode_checkbox, map_style,
                       click_status_label, stack>>

\* lines 21-25: the slot the click-forwarding script calls
on_map_click_at(lat, lng, ok) ==
        /\ BridgeEnabled
        /\ op' = "on_map_click"
        /\ dialog' = NoDialog
        /\ IF click_mode_enabled
           THEN add_trajectory_point(lat, lng, ok)
           ELSE /\ UNCHANGED <<current_trajectory, trajectory_count_label,
                               info_label>>
                /\ no_render
        /\ UNCHANGED <<completed_trajectories, is_drawing_mode, save_can_fail, page,
                       click_mode_enabled, click_mode_checkbox, map_style,
                       click_status_label, stack>>

on_map_click ==
    \E lat \in ClickLats, lng \in ClickLngs, ok \in SaveOutcomes :
        on_map_click_at(lat, lng, ok)

\* lines 295-322: the Add Point button, with the texts of the two fields
add_manual_point_with(lat_input, lon_input, ok) ==
        LET lat_text == strip(lat_input)
            lng_text == strip(lon_input)
            warn(d) ==
                /\ dialog' = d
                /\ UNCHANGED <<current_trajectory, trajectory_count_label,
                               info_label>>
                /\ no_render
        IN  /\ InputEnabled
            /\ op' = "add_manual_point"
            /\ IF lat_text = "" \/ lng_text = ""
               THEN warn(<<"warning", "Missing Coordinates">>)
               ELSE IF ~float_parses(lat_text) \/ ~float_parses(lng_text)
               THEN warn(<<"warning", "Invalid Coordinates",
                           "could not convert string to float">>)
               ELSE IF ~lat_in_range(float(lat_text))
               THEN warn(<<"warning", "Invalid Coordinates",
                           "Latitude must be between -90 and 90 degrees">>)
               ELSE IF ~lng_in_range(float(lng_text))
               THEN warn(<<"warning", "Invalid Coordinates",
                           "Longitude must be between -180 and 180 degrees">>)
               ELSE /\ dialog' = NoDialog
                    /\ add_trajectory_point(float(lat_text), float(lng_text),
                                            ok)
            /\ UNCHANGED <<completed_trajectories, is_drawing_mode, save_can_fail, page,
                           click_mode_enabled, click_mode_checkbox,
                           map_style, click_status_label, stack>>

add_manual_point ==
    \E lat_input \in LatTexts, lon_input \in LngTexts, ok \in SaveOutcomes :
        add_manual_point_with(lat_input, lon_input, ok)

----------------------------------------------------------------------------
(* Finishing and clearing *)

\* the archive step that leaves the current trajectory as it is
save_without_reset(ok) ==
    /\ Len(completed_trajectories) < MaxTrajectories
    /\ completed_trajectories' =
           append(completed_trajectories, current_trajectory)
    /\ current_trajectory' = current_trajectory
    /\ trajectory_count_label' =
           status_text(completed_trajectories', current_trajectory')
    /\ info_label' = <<"trajectory completed", Len(completed_trajectories'),
                       Len(current_trajectory)>>
    /\ refresh_map(completed_trajectories', current_trajectory', map_style,
                   ok)

\* the archive step that empties the current trajectory before it copies it
save_after_reset(ok) ==
    /\ Len(completed_trajectories) < MaxTrajectories
    /\ current_trajectory' = <<>>
    /\ completed_trajectories' =
           append(completed_trajectories, current_trajectory')
    /\ trajectory_count_label' =
           status_text(completed_trajectories', current_trajectory')
    /\ info_label' = <<"trajectory completed", Len(completed_trajectories'),
                       Len(current_trajectory')>>
    /\ refresh_map(completed_trajectories', current_trajectory', map_style,
                   ok)

\* lines 339-352: archive the current trajectory and start a new one
save_current_trajectory(ok) ==
    /\ Len(completed_trajectories) < MaxTrajectories
    /\ completed_trajectories' =
           append(completed_trajectories, current_trajectory)
    /\ current_trajectory' = <<>>
    /\ trajectory_count_label' =
           status_text(completed_trajectories', current_trajectory')
    /\ info_label' = <<"trajectory completed", Len(completed_trajectories'),
                       Len(current_trajectory)>>
    /\ refresh_map(completed_trajectories', current_trajectory', map_style,
                   ok)

\* the Finish button with no test for an empty trajectory
finish_without_empty_test ==
    \E ok \in SaveOutcomes :
        /\ InputEnabled
        /\ op' = "finish_current_trajectory"
        /\ dialog' = NoDialog
        /\ save_current_trajectory(ok)
        /\ UNCHANGED <<is_drawing_mode, save_can_fail, page, click_mode_enabled,
                       click_mode_checkbox, map_style, click_status_label,
                       stack>>

\* lines 324-338: the Finish button, up to its return, its prompt or its
\* completion
finish_current_trajectory ==
    \E ok \in SaveOutcomes :
        /\ InputEnabled
        /\ op' = "finish_current_trajectory"
        /\ IF Len(current_trajectory) = 0
           THEN /\ dialog' = <<"information", "No Trajectory">>
                /\ UNCHANGED <<completed_trajectories, current_trajectory,
                               trajectory_count_label, info_label, stack>>
                /\ no_render
           ELSE IF Len(current_trajectory) = 1
           THEN /\ Len(stack) < MaxDepth
                /\ dialog' = <<"question", "Single Point Trajectory">>
                /\ stack' = Append(stack,
                                   Frame("finish_current_trajectory", 0, 0))
                /\ UNCHANGED <<completed_trajectories, current_trajectory,
                               trajectory_count_label, info_label>>
                /\ no_render
           ELSE /\ dialog' = NoDialog
                /\ save_current_trajectory(ok)
                /\ UNCHANGED stack
        /\ UNCHANGED <<is_drawing_mode, save_can_fail, page, click_mode_enabled,
                       click_mode_checkbox, map_style, click_status_label>>

\* lines 336-352: the operator answers the single-point prompt
finish_current_trajectory_reply_with(reply, ok) ==
        /\ InPrompt("finish_current_trajectory")
        /\ op' = "finish_current_trajectory_reply"
        /\ dialog' = NoDialog
        /\ stack' = pop
        /\ IF reply = "No"
           THEN /\ UNCHANGED <<completed_trajectories, current_trajectory,
                               trajectory_count_label, info_label>>
                /\ no_render
           ELSE save_current_trajectory(ok)
        /\ UNCHANGED <<is_drawing_mode, save_can_fail, page, click_mode_enabled,
                       click_mode_checkbox, map_style, click_status_label>>

finish_current_trajectory_reply ==
    \E reply \in Replies, ok \in SaveOutcomes :
        finish_current_trajectory_reply_with(reply, ok)

\* the Clear Current button that empties the archive with the trajectory
clear_current_and_archive ==
    \E ok \in SaveOutcomes :
        /\ InputEnabled
        /\ op' = "clear_current_trajectory"
        /\ Len(current_trajectory) > 0
        /\ dialog' = NoDialog
        /\ current_trajectory' = <<>>
        /\ completed_trajectories' = <<>>
        /\ trajectory_count_label' =
               status_text(completed_trajectories', current_trajectory')
        /\ info_label' = <<"current trajectory cleared",
                           Len(current_trajectory)>>
        /\ refresh_map(completed_trajectories', current_trajectory',
                       map_style, ok)
        /\ UNCHANGED <<is_drawing_mode, save_can_fail, page, click_mode_enabled,
                       click_mode_checkbox, map_style, click_status_label,
                       stack>>

\* lines 354-364: the Clear Current button
clear_current_trajectory ==
    \E ok \in SaveOutcomes :
        /\ InputEnabled
        /\ op' = "clear_current_trajectory"
        /\ IF Len(current_trajectory) = 0
           THEN /\ dialog' = <<"information", "Nothing to Clear",
                               "No current trajectory to clear.">>
                /\ UNCHANGED <<current_trajectory, trajectory_count_label,
                               info_label>>
                /\ no_render
           ELSE /\ dialog' = NoDialog
                /\ current_trajectory' = <<>>
                /\ trajectory_count_label' =
                       status_text(completed_trajectories,
                                   current_trajectory')
                /\ info_label' = <<"current trajectory cleared",
                                   Len(current_trajectory)>>
                /\ refresh_map(completed_trajectories, current_trajectory',
                               map_style, ok)
        /\ UNCHANGED <<completed_trajectories, is_drawing_mode, save_can_fail, page,
                       click_mode_enabled, click_mode_checkbox, map_style,
                       click_status_label, stack>>

\* lines 366-379: the Clear All button, up to its return or its prompt
clear_all_trajectories ==
    LET total_trajectories == Len(completed_trajectories)
        current_points == Len(current_trajectory)
    IN  /\ InputEnabled
        /\ op' = "clear_all_trajectories"
        /\ IF total_trajectories = 0 /\ current_points = 0
           THEN /\ dialog' = <<"information", "Nothing to Clear",
                               "No trajectories to clear.">>
                /\ UNCHANGED stack
           ELSE /\ Len(stack) < MaxDepth
                /\ dialog' = <<"question", "Clear All Trajectories",
                               total_trajectories, current_points>>
                /\ stack' = Append(stack,
                                   Frame("clear_all_trajectories",
                                         total_trajectories, current_points))
        /\ no_render
        /\ UNCHANGED <<completed_trajectories, current_trajectory,
                       is_drawing_mode, save_can_fail, page, click_mode_enabled,
                       click_mode_checkbox, map_style,
                       trajectory_count_label, click_status_label,
                       info_label>>

\* the answer to the clear-all prompt that empties the archive only
clear_all_keeping_current(reply, ok) ==
        /\ InPrompt("clear_all_trajectories")
        /\ op' = "clear_all_trajectories_reply"
        /\ dialog' = NoDialog
        /\ stack' = pop
        /\ IF reply = "Yes"
           THEN /\ completed_trajectories' = <<>>
                /\ UNCHANGED current_trajectory
                /\ trajectory_count_label' =
                       status_text(completed_trajectories',
                                   current_trajectory')
                /\ info_label' = <<"all trajectories cleared">>
                /\ refresh_map(completed_trajectories', current_trajectory',
                               map_style, ok)
           ELSE /\ UNCHANGED <<completed_trajectories, current_trajectory,
                               trajectory_count_label, info_label>>
                /\ no_render
        /\ UNCHANGED <<is_drawing_mode, save_can_fail, page, click_mode_enabled,
                       click_mode_checkbox, map_style, click_status_label>>

\* lines 381-386: the operator answers the clear-all prompt
clear_all_trajectories_reply_with(reply, ok) ==
        /\ InPrompt("clear_all_trajectories")
        /\ op' = "clear_all_trajectories_reply"
        /\ dialog' = NoDialog
        /\ stack' = pop
        /\ IF reply = "Yes"
           THEN /\ completed_trajectories' = <<>>
                /\ current_trajectory' = <<>>
                /\ trajectory_count_label' =
                       status_text(completed_trajectories',
                                   current_trajectory')
                /\ info_label' = <<"all trajectories cleared">>
                /\ refresh_map(completed_trajectories', current_trajectory',
                               map_style, ok)
           ELSE /\ UNCHANGED <<completed_trajectories, current_trajectory,
                               trajectory_count_label, info_label>>
                /\ no_render
        /\ UNCHANGED <<is_drawing_mode, save_can_fail, page, click_mode_enabled,
                       click_mode_checkbox, map_style, click_status_label>>

clear_all_trajectories_reply ==
    \E reply \in Replies, ok \in SaveOutcomes :
        clear_all_trajectories_reply_with(reply, ok)

----------------------------------------------------------------------------
(* Click mode, map style, place search *)

\* lines 204-215: the check box changed to `state`
toggle_click_mode ==
    \E state \in {QtUnchecked, QtChecked} :
        /\ InputEnabled
        /\ state = (IF click_mode_checkbox THEN QtUnchecked ELSE QtChecked)
        /\ op' = "toggle_click_mode"
        /\ dialog' = NoDialog
        /\ click_mode_checkbox' = (state = QtChecked)
        /\ click_mode_enabled' = (state = QtChecked)
        /\ click_status_label' =
               (IF click_mode_enabled' THEN "ENABLED" ELSE "DISABLED")
        /\ info_label' =
               (IF click_mode_enabled'
                THEN <<"click mode enabled">>
                ELSE <<"click mode disabled, use manual coordinate entry">>)
        /\ no_render
        /\ UNCHANGED <<completed_trajectories, current_trajectory,
                       is_drawing_mode, save_can_fail, page, map_style, trajectory_count_label,
                       stack>>

\* lines 112-114: another style is selected, which calls refresh_map
map_style_changed ==
    \E style \in {"OpenStreetMap", "Satellite View", "Terrain"},
       ok \in SaveOutcomes :
        /\ InputEnabled
        /\ style # map_style
        /\ op' = "map_style_changed"
        /\ dialog' = NoDialog
        /\ map_style' = style
        /\ refresh_map(completed_trajectories, current_trajectory, style, ok)
        /\ UNCHANGED <<completed_trajectories, current_trajectory,
                       is_drawing_mode, save_can_fail, page, click_mode_enabled,
                       click_mode_checkbox, trajectory_count_label,
                       click_status_label, info_label, stack>>

\* lines 388-397: the Search button, up to its return or to processEvents
search_place ==
    \E place_input \in PlaceTexts :
        LET place_name == strip(place_input)
        IN  /\ InputEnabled
            /\ op' = "search_place"
            /\ IF place_name = ""
               THEN /\ dialog' = <<"warning", "Empty Search">>
                    /\ UNCHANGED <<info_label, stack>>
               ELSE /\ Len(stack) < MaxDepth
                    /\ dialog' = NoDialog
                    /\ info_label' = <<"searching">>
                    /\ stack' = Append(stack,
                                       Frame("search_place", place_name, 0))
            /\ no_render
            /\ UNCHANGED <<completed_trajectories, current_trajectory,
                           is_drawing_mode, save_can_fail, page, click_mode_enabled,
                           click_mode_checkbox, map_style,
                           trajectory_count_label, click_status_label>>

\* the continuation that adds a found location to the current trajectory
search_resume_adding_point(result, ok) ==
        /\ InPump
        /\ op' = "search_place_resume"
        /\ dialog' = NoDialog
        /\ stack' = pop
        /\ IF result[1] = "found"
           THEN /\ current_trajectory' =
                       (IF Len(current_trajectory) < MaxPoints
                        THEN append(current_trajectory,
                                    <<result[2].latitude,
                                      result[2].longitude>>)
                        ELSE current_trajectory)
                /\ current_map' =
                       search_map(result[2], completed_trajectories,
                                  current_trajectory', map_style)
                /\ save_and_display_map(current_map', ok)
                /\ info_label' = (IF ok THEN <<"found", result[2].address>>
                                        ELSE <<"search error">>)
           ELSE /\ info_label' = (IF result[1] = "none"
                                  THEN <<"could not find", top.a>>
                                  ELSE <<"search error">>)
                /\ UNCHANGED <<current_trajectory, current_map, map_view>>
                /\ rendered' = FALSE
        /\ UNCHANGED <<completed_trajectories, is_drawing_mode,
                       save_can_fail, page, click_mode_enabled,
                       click_mode_checkbox, map_style,
                       trajectory_count_label, click_status_label, alive>>

\* lines 399-425: processEvents returned; the lookup, which answers
\* `result`, and what follows it
search_place_resume_with(result, ok) ==
        /\ InPump
        /\ op' = "search_place_resume"
        /\ dialog' = NoDialog
        /\ stack' = pop
        /\ IF result[1] = "found"
           THEN /\ current_map' =
                       search_map(result[2], completed_trajectories,
                                  current_trajectory, map_style)
                /\ save_and_display_map(current_map', ok)
                /\ info_label' = (IF ok THEN <<"found", result[2].address>>
                                        ELSE <<"search error">>)
           ELSE /\ info_label' = (IF result[1] = "none"
                                  THEN <<"could not find", top.a>>
                                  ELSE <<"search error">>)
                /\ UNCHANGED <<current_map, map_view>>
                /\ rendered' = FALSE
        /\ UNCHANGED <<completed_trajectories, current_trajectory,
                       is_drawing_mode, save_can_fail, page, click_mode_enabled,
                       click_mode_checkbox, map_style,
                       trajectory_count_label, click_status_label, alive>>

search_place_resume ==
    \E result \in GeocodeResults, ok \in SaveOutcomes :
        search_place_resume_with(result, ok)

----------------------------------------------------------------------------

Next ==
    \/ on_map_click
    \/ add_manual_point
    \/ finish_current_trajectory
    \/ finish_current_trajectory_reply
    \/ clear_current_trajectory
    \/ clear_all_trajectories
    \/ clear_all_trajectories_reply
    \/ toggle_click_mode
    \/ map_style_changed
    \/ search_place
    \/ search_place_resume

Spec == Init /\ [][Next]_vars

SpecFaults == InitFaults /\ [][Next]_vars

----------------------------------------------------------------------------
(* Properties *)

\* a pair inside the ranges of a Point: lat in [-90, 90], lng in [-180, 180]
InRange(p) ==
    /\ p[1] >= -900000 /\ p[1] <= 900000
    /\ p[2] >= -1800000 /\ p[2] <= 1800000

Points(trajectory) == {trajectory[i] : i \in 1..Len(trajectory)}

IsPrefix(a, b) == Len(a) <= Len(b) /\ SubSeq(b, 1, Len(a)) = a

\* the texts of the two fields are a valid coordinate pair
ValidTexts(lat_input, lon_input) ==
    /\ float_parses(strip(lat_input)) /\ float_parses(strip(lon_input))
    /\ InRange(<<float(strip(lat_input)), float(strip(lon_input))>>)

\* C1: in every reachable state every point of currentTrajectory and of
\* every completed trajectory has lat in [-90, 90] and lng in [-180, 180],
\* whether it arrived through the click bridge or through manual entry.
C1_StoredPointsInRange ==
    /\ \A p \in Points(current_trajectory) : InRange(p)
    /\ \A i \in 1..Len(completed_trajectories) :
           \A p \in Points(completed_trajectories[i]) : InRange(p)

\* C2: with click capture off, a manual entry of valid coordinates still
\* appends its point to currentTrajectory, which grows by one.
C2_ManualEntryBypassesGate ==
    [][(op' = "add_manual_point" /\ ~click_mode_enabled)
           => \A lat_input \in LatTexts, lon_input \in LngTexts,
                 ok \in SaveOutcomes :
                  ( /\ ValidTexts(lat_input, lon_input)
                    /\ add_manual_point_with(lat_input, lon_input, ok) )
                  => current_trajectory' =
                         Append(current_trajectory,
                                <<float(strip(lat_input)),
                                  float(strip(lon_input))>>)
      ]_vars

\* C3: a map click that arrives while click capture is off changes neither
\* currentTrajectory nor completedTrajectories, opens no message box and
\* publishes no map, whatever toggles and clicks came before.
C3_ClickIgnoredWhenCaptureOff ==
    [][(op' = "on_map_click" /\ ~click_mode_enabled)
           => /\ UNCHANGED <<completed_trajectories, current_trajectory,
                             click_mode_enabled, labels, current_map,
                             map_view, stack, alive>>
              /\ dialog' = NoDialog
              /\ rendered' = FALSE
      ]_vars

\* C3 witness: a click has arrived with capture off and points in place
C3_Witness ==
    /\ op = "on_map_click"
    /\ ~click_mode_enabled
    /\ Len(current_trajectory) > 0
    /\ ~rendered

\* the click-capture gate of add_trajectory_point lets a point through
GateOpen == is_drawing_mode /\ click_mode_enabled

\* the finish handler, entered with points in the current trajectory,
\* returns in this step (at once with two points or more, or on the answer
\* to the single-point prompt)
FinishReturns ==
    \/ op' = "finish_current_trajectory" /\ Len(current_trajectory) >= 2
    \/ op' = "finish_current_trajectory_reply"

\* the finish handler archives in this step: it was entered with two
\* points or more, or its single-point prompt is answered Yes
FinishArchives ==
    \/ op' = "finish_current_trajectory" /\ Len(current_trajectory) >= 2
    \/ /\ op' = "finish_current_trajectory_reply"
       /\ \E ok \in SaveOutcomes :
              finish_current_trajectory_reply_with("Yes", ok)

\* the step archives exactly the current trajectory and empties it
Archived ==
    /\ Len(completed_trajectories') = Len(completed_trajectories) + 1
    /\ completed_trajectories' =
           Append(completed_trajectories, current_trajectory)
    /\ current_trajectory' = <<>>

Added(p) ==
    /\ current_trajectory' = Append(current_trajectory, p)
    /\ Len(current_trajectory') = Len(current_trajectory) + 1
    /\ completed_trajectories' = completed_trajectories
    /\ info_label'[1] \in {"first point added", "point added"}
    /\ info_label'[2] = Len(current_trajectory) + 1
    /\ <<info_label'[3], info_label'[4]>> = p
    /\ trajectory_count_label' =
           <<Len(completed_trajectories), Len(current_trajectory) + 1>>

\* C5: an addPoint of a valid (lat, lng) that the click-capture gate does
\* not reject appends exactly that pair as the new last point, keeps the
\* earlier points and completedTrajectories, and reports the new count.
C5_AddPointAppends ==
    [][/\ (op' = "on_map_click" /\ GateOpen)
              => \A lat \in ClickLats, lng \in ClickLngs, ok \in SaveOutcomes :
                     ( /\ InRange(<<lat, lng>>)
                       /\ on_map_click_at(lat, lng, ok) )
                     => Added(<<lat, lng>>)
       /\ (op' = "add_manual_point" /\ GateOpen)
              => \A lat_input \in LatTexts, lon_input \in LngTexts,
                    ok \in SaveOutcomes :
                     ( /\ ValidTexts(lat_input, lon_input)
                       /\ add_manual_point_with(lat_input, lon_input, ok) )
                     => Added(<<float(strip(lat_input)),
                                float(strip(lon_input))>>)
      ]_vars

\* C5 witness: a valid point was added as the second, after a different one
C5_Witness ==
    /\ op \in {"on_map_click", "add_manual_point"}
    /\ Len(current_trajectory) = 2
    /\ InRange(current_trajectory[2])
    /\ current_trajectory[1] # current_trajectory[2]
    /\ info_label = <<"point added", 2, current_trajectory[2][1],
                      current_trajectory[2][2]>>
    /\ Len(completed_trajectories) > 0

\* the message box of a coordinate out of range, latitude first
RangeError(p) ==
    IF ~(p[1] >= -900000 /\ p[1] <= 900000)
    THEN <<"warning", "Invalid Coordinates",
           "Latitude must be between -90 and 90 degrees">>
    ELSE <<"warning", "Invalid Coordinates",
           "Longitude must be between -180 and 180 degrees">>

\* C6: an addPoint of a pair with lat outside [-90, 90] or lng outside
\* [-180, 180] leaves currentTrajectory, completedTrajectories and the
\* click-capture flag unchanged and reports the latitude error if lat is
\* out of range, else the longitude error, for a click as for manual entry.
C6_OutOfRangeRejected ==
    [][/\ op' = "on_map_click"
              => \A lat \in ClickLats, lng \in ClickLngs, ok \in SaveOutcomes :
                     ( /\ ~InRange(<<lat, lng>>)
                       /\ on_map_click_at(lat, lng, ok) )
                     => /\ UNCHANGED store
                        /\ dialog' = RangeError(<<lat, lng>>)
       /\ op' = "add_manual_point"
              => \A lat_input \in LatTexts, lon_input \in LngTexts,
                    ok \in SaveOutcomes :
                     ( /\ float_parses(strip(lat_input))
                       /\ float_parses(strip(lon_input))
                       /\ ~InRange(<<float(strip(lat_input)),
                                     float(strip(lon_input))>>)
                       /\ add_manual_point_with(lat_input, lon_input, ok) )
                     => /\ UNCHANGED store
                        /\ dialog' = RangeError(<<float(strip(lat_input)),
                                                  float(strip(lon_input))>>)
      ]_vars

\* C7: finishCurrent on an empty currentTrajectory reports the empty
\* trajectory and changes nothing: the trajectories, the click-capture
\* flag, the labels and the map stay as they are and no map is published.
C7_FinishEmptyFails ==
    [][(op' = "finish_current_trajectory" /\ Len(current_trajectory) = 0)
           => /\ dialog' = <<"information", "No Trajectory">>
              /\ UNCHANGED <<completed_trajectories, current_trajectory,
                             click_mode_enabled, labels, current_map,
                             map_view, stack, alive>>
              /\ rendered' = FALSE
      ]_vars

\* C7 witness: finish was pressed with no current point, one trajectory
\* being archived
C7_Witness ==
    /\ op = "finish_current_trajectory"
    /\ dialog = <<"information", "No Trajectory">>
    /\ current_trajectory = <<>>
    /\ Len(completed_trajectories) = 1

\* the step is a clearAll that the operator confirmed
ClearAllConfirmed ==
    /\ op' = "clear_all_trajectories_reply"
    /\ \E ok \in SaveOutcomes : clear_all_trajectories_reply_with("Yes", ok)

\* the step is a clearAll that the operator declined
ClearAllDeclined ==
    /\ op' = "clear_all_trajectories_reply"
    /\ \E ok \in SaveOutcomes : clear_all_trajectories_reply_with("No", ok)

\* C8: across every step that is not a confirmed clearAll the previous
\* completedTrajectories is a prefix of the new one.
C8_CompletedAppendOnly ==
    [][ClearAllConfirmed
           \/ IsPrefix(completed_trajectories, completed_trajectories')]_vars

\* C8 witness: a second, different trajectory was archived after the first
C8_Witness ==
    /\ op \in {"finish_current_trajectory", "finish_current_trajectory_reply"}
    /\ Len(completed_trajectories) = 2
    /\ completed_trajectories[1] # completed_trajectories[2]
    /\ rendered

\* C9 as stated: clearAll reports nothing to clear, changing nothing,
\* exactly when both collections are empty, and in every other state it
\* empties both.
C9_ClearAllAlwaysEmpties ==
    [][/\ op' = "clear_all_trajectories"
              => /\ UNCHANGED store
                 /\ (dialog' = <<"information", "Nothing to Clear",
                                 "No trajectories to clear.">>)
                        <=> ( /\ completed_trajectories = <<>>
                              /\ current_trajectory = <<>> )
       /\ op' = "clear_all_trajectories_reply"
              => /\ completed_trajectories' = <<>>
                 /\ current_trajectory' = <<>>
      ]_vars

\* C9 as amended: clearAll reports nothing to clear, changing nothing,
\* exactly when both collections are empty; in every other state it asks
\* for confirmation, stating the number of completed trajectories and the
\* number of current points separately, and changes nothing yet; answered
\* Yes it empties both collections, answered No it changes nothing.
C9_ClearAllOnConfirmation ==
    [][/\ op' = "clear_all_trajectories"
              => /\ UNCHANGED <<store, labels, current_map, map_view, alive>>
                 /\ rendered' = FALSE
                 /\ dialog' =
                        (IF /\ completed_trajectories = <<>>
                            /\ current_trajectory = <<>>
                         THEN <<"information", "Nothing to Clear",
                                "No trajectories to clear.">>
                         ELSE <<"question", "Clear All Trajectories",
                                Len(completed_trajectories),
                                Len(current_trajectory)>>)
                 /\ stack' = stack
                        <=> ( /\ completed_trajectories = <<>>
                              /\ current_trajectory = <<>> )
       /\ ClearAllConfirmed
              => /\ completed_trajectories' = <<>>
                 /\ current_trajectory' = <<>>
                 /\ trajectory_count_label' = <<0, 0>>
                 /\ info_label' = <<"all trajectories cleared">>
                 /\ click_mode_enabled' = click_mode_enabled
       /\ ClearAllDeclined
              => /\ UNCHANGED <<store, labels, current_map, map_view, alive>>
                 /\ rendered' = FALSE
      ]_vars

\* C9 witness: the prompt was answered Yes and both collections are empty
C9_Witness ==
    /\ op = "clear_all_trajectories_reply"
    /\ info_label = <<"all trajectories cleared">>
    /\ completed_trajectories = <<>>
    /\ current_trajectory = <<>>
    /\ trajectory_count_label = <<0, 0>>
    /\ rendered

\* C10: clearCurrent reports nothing to clear and changes nothing when
\* currentTrajectory is empty; otherwise it empties currentTrajectory and
\* reports how many points it held; completedTrajectories and the
\* click-capture flag are unchanged either way.
C10_ClearCurrent ==
    [][op' = "clear_current_trajectory"
           => /\ UNCHANGED <<completed_trajectories, click_mode_enabled,
                             stack>>
              /\ IF Len(current_trajectory) = 0
                 THEN /\ dialog' = <<"information", "Nothing to Clear",
                                     "No current trajectory to clear.">>
                      /\ UNCHANGED <<current_trajectory, labels, current_map,
                                     map_view, alive>>
                      /\ rendered' = FALSE
                 ELSE /\ dialog' = NoDialog
                      /\ current_trajectory' = <<>>
                      /\ info_label' = <<"current trajectory cleared",
                                         Len(current_trajectory)>>
                      /\ trajectory_count_label' =
                             <<Len(completed_trajectories), 0>>
      ]_vars

\* C10 witness: two current points were cleared beside an archived
\* trajectory
C10_Witness ==
    /\ op = "clear_current_trajectory"
    /\ info_label = <<"current trajectory cleared", 2>>
    /\ current_trajectory = <<>>
    /\ Len(completed_trajectories) > 0

----------------------------------------------------------------------------
(* The published document and its click bridge *)

\* C11: every document published to the view (the initial map, every
\* refresh, every search-result render) is the map just built and carries
\* the click-forwarding script, so in every state the loaded document
\* forwards a click, and a click with capture enabled changes the store.
C11_BridgeRearmed ==
    /\ [](map_view.click_script /\ (alive => BridgeEnabled))
    /\ [][/\ rendered' => ( /\ map_view' = current_map'
                            /\ map_view'.click_script )
          /\ (op' = "on_map_click" /\ GateOpen)
                 => /\ Len(current_trajectory') = Len(current_trajectory) + 1
                    /\ rendered'
         ]_vars

\* C11 witness: a search-result render has replaced the document of a map
\* on which clicks had added points, and the new document carries the script
C11_Witness ==
    /\ op = "search_place_resume"
    /\ rendered
    /\ map_view.marker # <<>>
    /\ map_view.click_script
    /\ BridgeEnabled
    /\ Len(current_trajectory) = 2
    /\ Len(completed_trajectories) > 0

\* the scene elements of the trajectories in the store: the completed
\* trajectories by index, then the current trajectory
StoreScene ==
    add_completed_to_map(completed_trajectories,
                         Len(completed_trajectories))
    \o add_single_trajectory_to_map(current_trajectory,
                                    Len(completed_trajectories), FALSE)

\* the step changes the store
StoreMutated ==
    \/ completed_trajectories' # completed_trajectories
    \/ current_trajectory' # current_trajectory

\* C12: every step that changes the store also sets the count label to the
\* new lengths, rebuilds the whole scene from the new store and publishes
\* it; so whenever no handler is running or suspended the count label
\* shows the two lengths and the trajectories drawn in the published
\* document are exactly those of the store.
C12_PublishedSceneCurrent ==
    /\ [][StoreMutated
             => /\ trajectory_count_label' =
                       <<Len(completed_trajectories'),
                         Len(current_trajectory')>>
                /\ current_map' =
                       refreshed_map(completed_trajectories',
                                     current_trajectory', map_style')
                /\ map_view' = current_map'
                /\ rendered'
         ]_vars
    /\ []((alive /\ stack = <<>>)
             => /\ trajectory_count_label =
                       <<Len(completed_trajectories),
                         Len(current_trajectory)>>
                /\ map_children(map_view) = map_view.marker \o StoreScene)

\* C12 witness: between events, after a finish, the document shows two
\* completed trajectories and the label counts them
C12_Witness ==
    /\ alive /\ stack = <<>>
    /\ op = "finish_current_trajectory"
    /\ rendered
    /\ trajectory_count_label = <<2, 0>>
    /\ Len(completed_trajectories) = 2
    /\ Len(map_children(map_view)) >= 4
    /\ map_children(map_view) = StoreScene

\* C13 as stated: while a handler is suspended (finishCurrent or clearAll
\* at its confirmation prompt, search pumping pending events) no other
\* step changes the store, so a confirmed clearAll clears exactly the
\* counts its prompt stated and a confirmed single-point finish archives
\* exactly the one point it asked about.
C13_AtomicSequence ==
    [][/\ (stack # <<>> /\ stack' = stack) => ~StoreMutated
       /\ ClearAllConfirmed
              => /\ top.a = Len(completed_trajectories)
                 /\ top.b = Len(current_trajectory)
       /\ (op' = "finish_current_trajectory_reply" /\ StoreMutated)
              => Len(current_trajectory) = 1
      ]_vars

\* the centring rule, as <<centre, zoom>> for the store of this state: the
\* last current point at zoom 15, else the last point of the most recently
\* completed trajectory at zoom 15, else (40.7128, -74.0060) at zoom 12
CentringRule ==
    IF current_trajectory # <<>>
    THEN <<current_trajectory[Len(current_trajectory)], 15>>
    ELSE IF completed_trajectories # <<>>
    THEN LET last_trajectory ==
                 completed_trajectories[Len(completed_trajectories)]
         IN  <<last_trajectory[Len(last_trajectory)], 15>>
    ELSE <<<<407128, -740060>>, 12>>

\* the centre and zoom of the document in the view
ViewCentre == <<map_view.location, map_view.zoom_start>>

\* C14 as stated: every published document, whatever event produced it,
\* has the centre and zoom the centring rule gives for the store at that
\* moment.
C14_EveryRenderFollowsRule ==
    rendered => ViewCentre = CentringRule

\* C14 as amended: the initial map and every document published by a
\* refresh (after addPoint, finishCurrent, clearCurrent, clearAll or a
\* style change) has the centre and zoom of the centring rule for the
\* store at that moment; a search-result render is centred on the found
\* location at zoom 15, whatever the store holds.
C14_RefreshFollowsRule ==
    rendered =>
        IF op = "search_place_resume"
        THEN /\ Len(map_view.marker) = 1
             /\ ViewCentre = <<map_view.marker[1].at, 15>>
        ELSE ViewCentre = CentringRule

\* C14 witness: the current trajectory was cleared and the refresh centred
\* the view on the last point of the last completed trajectory, which is
\* not its first point
C14_Witness ==
    /\ rendered
    /\ op = "clear_current_trajectory"
    /\ current_trajectory = <<>>
    /\ Len(completed_trajectories) = 2
    /\ Len(completed_trajectories[2]) = 2
    /\ completed_trajectories[2][1] # completed_trajectories[2][2]
    /\ ViewCentre = <<completed_trajectories[2][2], 15>>

\* both collections are empty, as they are from a successful clearAll
\* until the next point is added
StoreEmpty == completed_trajectories = <<>> /\ current_trajectory = <<>>

\* C15 as stated: after a successful clearAll, every document published
\* before another point is added (by the refresh of the clear, by a style
\* change or by a search-result render) has no marker and no polyline.
C15_NothingDrawnAfterClearAll ==
    (rendered /\ StoreEmpty) => map_children(map_view) = <<>>

\* C15 as amended: after a successful clearAll, every document published
\* before another point is added has no trajectory marker and no polyline:
\* a refresh or a style change publishes an empty scene, and a
\* search-result render publishes exactly one element, the search marker.
C15_NoTrajectoryDrawnAfterClearAll ==
    (rendered /\ StoreEmpty) =>
        IF op = "search_place_resume"
        THEN /\ Len(map_children(map_view)) = 1
             /\ map_children(map_view)[1].kind = "Marker"
             /\ map_children(map_view)[1].tooltip = <<"Search Result">>
        ELSE map_children(map_view) = <<>>

\* C15 witness: a style change after a confirmed clearAll published an
\* empty scene
C15_Witness ==
    /\ rendered
    /\ op = "map_style_changed"
    /\ info_label = <<"all trajectories cleared">>
    /\ StoreEmpty
    /\ map_view.tiles # "OpenStreetMap"
    /\ map_children(map_view) = <<>>

\* the step built a map whose save failed: setUrl was not reached
SaveFailed == current_map' # current_map /\ ~rendered'

\* C16 as stated: no failure is fatal; a step whose save fails is caught
\* and turned into a status message, keeps the store as the step set it,
\* and leaves the previous document displayed with its click bridge.
C16_NoFailureFatal ==
    /\ []alive
    /\ [][SaveFailed
             => /\ alive'
                /\ info_label' = <<"search error">>
                /\ map_view' = map_view
                /\ BridgeEnabled'
         ]_vars

----------------------------------------------------------------------------
(* The scene builder on its own: stores of up to MaxSceneTrajectories      *)
(* completed trajectories of up to MaxScenePoints points, refreshed        *)

\* longest trajectory of the scene specification
MaxScenePoints == 3

\* most completed trajectories of the scene specification: index 15, the
\* first to reuse a colour, exists
MaxSceneTrajectories == 16

\* the points trajectories of the scene specification are made of
ScenePoints ==
    <<<<400000, -740000>>, <<401000, -741000>>, <<402000, -742000>>>>

\* the trajectory of `l` points that starts at point number `s`
ScenePath(s, l) ==
    [j \in 1..l |-> ScenePoints[((s + j - 2) % Len(ScenePoints)) + 1]]

\* trajectory number n of the enumeration of those trajectories
ScenePathNumber(n) ==
    ScenePath((n % Len(ScenePoints)) + 1,
              ((n \div Len(ScenePoints)) % MaxScenePoints) + 1)

ScenePaths ==
    {ScenePathNumber(n) : n \in 0..(Len(ScenePoints) * MaxScenePoints - 1)}

\* k completed trajectories, taken from the enumeration from number o on
SceneCompleted(k, o) == [i \in 1..k |-> ScenePathNumber(i + o)]

\* lines 29-53, 204-215, 270-352, 465-490: a state the program is in after
\* the operator has built a store and toggled the click mode off and on
\* again: the count label and the published document are those of the store
InitScene ==
    /\ \E k \in 0..MaxSceneTrajectories,
          o \in 0..(Len(ScenePoints) * MaxScenePoints - 1) :
           completed_trajectories = SceneCompleted(k, o)
    /\ current_trajectory \in {<<>>} \cup ScenePaths
    /\ map_style \in {"OpenStreetMap", "Satellite View", "Terrain"}
    /\ is_drawing_mode = TRUE
    /\ click_mode_enabled = TRUE
    /\ click_mode_checkbox = TRUE
    /\ trajectory_count_label =
           status_text(completed_trajectories, current_trajectory)
    /\ click_status_label = "ENABLED"
    /\ info_label = <<"click mode enabled">>
    /\ current_map = refreshed_map(completed_trajectories,
                                   current_trajectory, map_style)
    /\ map_view = current_map
    /\ stack = <<>>
    /\ alive = TRUE
    /\ save_can_fail = FALSE
    /\ page = NoPage
    /\ op = "toggle_click_mode"
    /\ dialog = NoDialog
    /\ rendered = FALSE

\* the handlers that rebuild the scene whatever the size of the store
NextScene ==
    \/ map_style_changed
    \/ clear_current_trajectory

SpecScene == InitScene /\ [][NextScene]_vars

\* the number of scene elements of a trajectory: a marker for each point
\* and, from two points on, a line
SceneSize(trajectory) ==
    IF Len(trajectory) > 1 THEN Len(trajectory) + 1 ELSE Len(trajectory)

\* the number of scene elements before those of the completed trajectory of
\* (0-based) index i
RECURSIVE SceneOffset(_)
SceneOffset(i) ==
    IF i = 0
    THEN Len(map_view.marker)
    ELSE SceneOffset(i - 1) + SceneSize(completed_trajectories[i])

\* the elements of the published scene that stand for the completed
\* trajectory of (0-based) index i
CompletedBlock(scene, i) ==
    SubSeq(scene, SceneOffset(i) + 1,
           SceneOffset(i) + SceneSize(completed_trajectories[i + 1]))

\* the elements of the published scene after those of the completed
\* trajectories
CurrentBlock(scene) ==
    SubSeq(scene, SceneOffset(Len(completed_trajectories)) + 1, Len(scene))

\* the colour the claim gives the completed trajectory of index i
PaletteColor(i) == trajectory_colors[(i % 15) + 1]

\* the elements of a block that are drawn in the trajectory's colour: the
\* circle markers and the line (start and end markers are icons)
Colored(block) ==
    {j \in 1..Len(block) : block[j].kind \in {"CircleMarker", "PolyLine"}}

\* C17: the palette has 15 colours; the completed trajectory of index i is
\* drawn in palette[i mod 15], whatever its points and the other
\* trajectories, so index 15 is drawn in the colour of index 0; the current
\* trajectory is drawn in one colour that is no element of the palette.
C17_ColorByIndex ==
    LET scene == map_children(map_view)
        current == CurrentBlock(scene)
    IN  /\ Len(trajectory_colors) = 15
        /\ \A i \in 0..(Len(completed_trajectories) - 1) :
               LET block == CompletedBlock(scene, i)
               IN  \A j \in Colored(block) :
                       block[j].color = PaletteColor(i)
        /\ PaletteColor(15) = PaletteColor(0)
        /\ \A j \in 1..Len(current) :
               /\ current[j].color = "#FF6600"
               /\ \A c \in 1..Len(trajectory_colors) :
                      trajectory_colors[c] # current[j].color

\* C17 witness: sixteen completed trajectories and a current one were drawn
\* again; the line of index 15 has the colour of the line of index 0 and
\* not that of index 14
C17_Witness ==
    LET scene == map_children(map_view)
    IN  /\ rendered
        /\ op = "map_style_changed"
        /\ Len(completed_trajectories) = 16
        /\ Len(completed_trajectories[1]) = 3
        /\ Len(completed_trajectories[15]) = 2
        /\ Len(completed_trajectories[16]) = 2
        /\ CompletedBlock(scene, 15)[3].kind = "PolyLine"
        /\ CompletedBlock(scene, 15)[3].color
               = CompletedBlock(scene, 0)[4].color
        /\ CompletedBlock(scene, 15)[3].color
               # CompletedBlock(scene, 14)[3].color
        /\ Len(CurrentBlock(scene)) = 3
        /\ CurrentBlock(scene)[3].color = "#FF6600"

\* the kinds of element a scene is made of
SceneKinds == {"Marker", "CircleMarker", "PolyLine"}

\* C18: for every store and every tile style the scene builder yields a
\* scene (a finite sequence of markers and lines); building it again from
\* the same trajectories yields the same sequence, element for element;
\* its elements are those of the completed trajectories in index order,
\* each block beginning with the start marker of its trajectory, followed
\* by those of the current trajectory.
C18_SceneDeterministic ==
    /\ [](LET scene == map_children(map_view)
              current == CurrentBlock(scene)
          IN  /\ \A j \in 1..Len(scene) : scene[j].kind \in SceneKinds
              /\ Len(scene) = SceneOffset(Len(completed_trajectories))
                                  + SceneSize(current_trajectory)
              /\ \A i \in 0..(Len(completed_trajectories) - 1) :
                     LET block == CompletedBlock(scene, i)
                     IN  /\ block[1].tooltip
                                = <<"Start of Trajectory", i + 1>>
                         /\ block[1].at = completed_trajectories[i + 1][1]
                         /\ \A j \in 2..Len(block) :
                                block[j].tooltip[1]
                                    # "Start of Trajectory"
              /\ \A j \in 1..Len(current) :
                     current[j].tooltip[1]
                         \in {"Current Point", "Current Trajectory"})
    /\ [][(rendered' /\ ~StoreMutated)
             => map_children(map_view') = map_children(map_view)]_vars

\* C18 witness: a store of three completed trajectories and a current one
\* was drawn a second time, in another style, as the same ten elements
C18_Witness ==
    /\ rendered
    /\ op = "map_style_changed"
    /\ map_style = "Terrain"
    /\ Len(completed_trajectories) = 3
    /\ Len(current_trajectory) = 2
    /\ Len(map_children(map_view)) = 10
    /\ map_children(map_view)[1].tooltip = <<"Start of Trajectory", 1>>
    /\ map_children(map_view)[2].tooltip = <<"Start of Trajectory", 2>>
    /\ map_children(map_view)[10].tooltip[1] = "Current Trajectory"

\* the positions of a block whose element is of kind k with the icon given
Elements(block, k, icon) ==
    {j \in 1..Len(block) : block[j].kind = k /\ block[j].icon = icon}

\* the block of a completed trajectory of n >= 1 points: n markers (a start
\* marker at the first point, an end marker at the last only when n >= 2,
\* n - 2 circle markers between) and a solid line through the points
\* exactly when n >= 2
CompletedDrawn(block, trajectory) ==
    LET n == Len(trajectory)
        Start == Elements(block, "Marker", <<"green", "play">>)
        End == Elements(block, "Marker", <<"red", "stop">>)
        Interior == Elements(block, "CircleMarker", <<"None", "None">>)
        Lines == Elements(block, "PolyLine", <<"None", "None">>)
    IN  /\ Start = {1} /\ block[1].at = trajectory[1]
        /\ End = (IF n >= 2 THEN {n} ELSE {})
        /\ n >= 2 => block[n].at = trajectory[n]
        /\ Interior = 2..(n - 1)
        /\ \A j \in Interior : block[j].at = trajectory[j]
        /\ Cardinality(Start \cup End \cup Interior) = n
        /\ Lines = (IF n >= 2 THEN {n + 1} ELSE {})
        /\ \A j \in Lines : /\ block[j].at = trajectory
                            /\ block[j].tooltip[4] = "solid"
        /\ Len(block) = Cardinality(Start \cup End \cup Interior \cup Lines)

\* the block of a current trajectory: a highlight marker at every point and
\* a dashed line through the points exactly when it has two or more
CurrentDrawn(block, trajectory) ==
    LET n == Len(trajectory)
        Highlight == Elements(block, "CircleMarker", <<"None", "None">>)
        Lines == Elements(block, "PolyLine", <<"None", "None">>)
    IN  /\ Highlight = 1..n
        /\ \A j \in Highlight : /\ block[j].at = trajectory[j]
                                /\ block[j].color = "#FF6600"
                                /\ block[j].radius = 8
        /\ Lines = (IF n >= 2 THEN {n + 1} ELSE {})
        /\ \A j \in Lines : /\ block[j].at = trajectory
                            /\ block[j].tooltip[3] = "10, 5"
        /\ Len(block) = Cardinality(Highlight \cup Lines)

\* C19: in the published scene a completed trajectory of n >= 1 points has
\* exactly n markers (start at its first point, end at its last point only
\* when n >= 2, n - 2 interior circle markers) and a solid line exactly
\* when n >= 2; a current trajectory has a highlight marker at every point
\* and a dashed line exactly when it has two points or more.
C19_MarkersAndLines ==
    LET scene == map_children(map_view)
    IN  /\ \A i \in 0..(Len(completed_trajectories) - 1) :
               CompletedDrawn(CompletedBlock(scene, i),
                              completed_trajectories[i + 1])
        /\ CurrentDrawn(CurrentBlock(scene), current_trajectory)

\* C19 witness: the trajectory (40.0,-74.0), (40.1,-74.1), (40.2,-74.2) is
\* the one completed trajectory and was drawn with its start marker at the
\* first point, a circle at the second, its end marker at the third and a
\* line
C19_Witness ==
    LET scene == map_children(map_view)
    IN  /\ rendered
        /\ op = "clear_current_trajectory"
        /\ current_trajectory = <<>>
        /\ completed_trajectories =
               << <<<<400000, -740000>>, <<401000, -741000>>,
                    <<402000, -742000>>>> >>
        /\ Len(scene) = 4
        /\ scene[1].icon = <<"green", "play">>
        /\ scene[1].at = <<400000, -740000>>
        /\ scene[2].kind = "CircleMarker"
        /\ scene[3].icon = <<"red", "stop">>
        /\ scene[3].at = <<402000, -742000>>
        /\ scene[4].kind = "PolyLine"

----------------------------------------------------------------------------
(* The click script inside the loaded document (lines 230-265).  The       *)
(* handler on the Python side is not run here: the calls the script makes  *)
(* to mapHandler.on_map_click are counted in page.calls.                   *)

\* most documents the view loads in the script specification
MaxRenders == 3

\* most clicks the operator makes on the map in the script specification
MaxClicks == 3

\* a document as its script finds it: window.map is defined or not, and
\* the page can open the web channel (qt.webChannelTransport and the
\* QWebChannel class are there) or not; no listener, nothing pending
fresh_document(number, map_defined, channel, clicks) ==
    [doc |-> number, map |-> map_defined, channel |-> channel,
     listeners |-> 0, waiting |-> "none", clicks |-> clicks, calls |-> 0]

\* a setup that adds its listener to those there and goes on polling
setup_and_poll_again(p) ==
    IF ~p.map
    THEN [p EXCEPT !.waiting = "timer"]
    ELSE [p EXCEPT !.listeners = p.listeners + 1, !.waiting = "timer"]

\* lines 232-251: setupMapClicks: while window.map is undefined it asks to
\* be called again in 100 ms; else it removes the click listeners
\* (off('click')) and adds one (on('click', ...))
setupMapClicks(p) ==
    IF ~p.map
    THEN [p EXCEPT !.waiting = "timer"]
    ELSE [p EXCEPT !.listeners = 0 + 1, !.waiting = "none"]

\* lines 258-262: the script as it runs when its document is parsed
click_script(p, readyState) ==
    IF readyState = "loading"
    THEN [p EXCEPT !.waiting = "DOMContentLoaded"]
    ELSE setupMapClicks(p)

\* the documents the view can hold once it has loaded document `number`
loaded_documents(number, clicks) ==
    {click_script(fresh_document(number, map_defined, channel, clicks),
                  readyState) :
        map_defined \in BOOLEAN, channel \in BOOLEAN,
        readyState \in {"loading", "interactive"}}

\* line 585: the view loads a newly published document, which replaces the
\* script context of the one before
load_document ==
    /\ page.doc < MaxRenders
    /\ page' \in loaded_documents(page.doc + 1, page.clicks)
    /\ UNCHANGED <<completed_trajectories, current_trajectory,
                   is_drawing_mode, click_mode_enabled, click_mode_checkbox,
                   map_style, trajectory_count_label, click_status_label,
                   info_label, current_map, map_view, stack, alive,
                   save_can_fail, op, dialog, rendered>>

\* line 259: the document has been parsed and calls setupMapClicks
DOMContentLoaded ==
    /\ page.waiting = "DOMContentLoaded"
    /\ page' = setupMapClicks([page EXCEPT !.waiting = "none"])
    /\ UNCHANGED <<completed_trajectories, current_trajectory,
                   is_drawing_mode, click_mode_enabled, click_mode_checkbox,
                   map_style, trajectory_count_label, click_status_label,
                   info_label, current_map, map_view, stack, alive,
                   save_can_fail, op, dialog, rendered>>

\* line 235: the 100 ms timer calls setupMapClicks again
setTimeout_fires ==
    /\ page.waiting = "timer"
    /\ page' = setupMapClicks([page EXCEPT !.waiting = "none"])
    /\ UNCHANGED <<completed_trajectories, current_trajectory,
                   is_drawing_mode, click_mode_enabled, click_mode_checkbox,
                   map_style, trajectory_count_label, click_status_label,
                   info_label, current_map, map_view, stack, alive,
                   save_can_fail, op, dialog, rendered>>

\* line 234: a script of the document defines window.map
window_map_defined ==
    /\ ~page.map
    /\ page' = [page EXCEPT !.map = TRUE]
    /\ UNCHANGED <<completed_trajectories, current_trajectory,
                   is_drawing_mode, click_mode_enabled, click_mode_checkbox,
                   map_style, trajectory_count_label, click_status_label,
                   info_label, current_map, map_view, stack, alive,
                   save_can_fail, op, dialog, rendered>>

\* lines 242-252: the operator clicks on the map; each click listener, if
\* the page can open the web channel, calls mapHandler.on_map_click once
map_clicked ==
    /\ page.clicks < MaxClicks
    /\ page' = [page EXCEPT !.clicks = page.clicks + 1,
                            !.calls = IF page.channel THEN page.listeners
                                                      ELSE 0]
    /\ UNCHANGED <<completed_trajectories, current_trajectory,
                   is_drawing_mode, click_mode_enabled, click_mode_checkbox,
                   map_style, trajectory_count_label, click_status_label,
                   info_label, current_map, map_view, stack, alive,
                   save_can_fail, op, dialog, rendered>>

\* lines 29-53, 585: the program constructed, its first document loaded
InitScript ==
    /\ Constructed
    /\ save_can_fail = FALSE
    /\ page \in loaded_documents(1, 0)

NextScript ==
    \/ load_document
    \/ DOMContentLoaded
    \/ setTimeout_fires
    \/ window_map_defined
    \/ map_clicked

SpecScript == InitScript /\ [][NextScript]_vars

\* the browser runs a pending DOMContentLoaded handler and a pending timer
SpecScriptFair ==
    /\ SpecScript
    /\ WF_vars(DOMContentLoaded)
    /\ WF_vars(setTimeout_fires)

\* what holds of the script in every state: no listener while window.map
\* is undefined, a retry pending until the listener is added and none
\* after, never more than one click listener, and at most one call of
\* on_map_click for a click
ScriptSafe ==
    /\ page.listeners <= 1
    /\ page.calls <= 1
    /\ ~page.map => page.listeners = 0
    /\ page.listeners = 0 => page.waiting # "none"
    /\ page.listeners = 1 => page.waiting = "none"

\* C20 as stated: the script retries until window.map exists and then
\* holds exactly one listener; the map never carries more than one click
\* listener; each click is forwarded at most once, however many documents
\* were loaded; and a map object that exists eventually gets its listener:
\* the document whose window.map is defined comes to hold the listener.
C20_ListenerAlwaysAttached ==
    /\ []ScriptSafe
    /\ \A d \in 1..MaxRenders :
           (page.map /\ page.doc = d)
               ~> (page.listeners = 1 /\ page.doc = d)

\* C20 as amended: as stated, but a map object gets its listener only if
\* its document stays loaded: in a document whose window.map is defined
\* the listener is eventually added, unless a newly published document
\* replaces that document first.
C20_OneListener ==
    /\ []ScriptSafe
    /\ \A d \in 1..MaxRenders :
           (page.map /\ page.doc = d)
               ~> (page.listeners = 1 \/ page.doc # d)

\* C20 witness: the third document loaded has window.map defined and its
\* one listener, no retry is pending, and the third click was forwarded
\* once
C20_Witness ==
    /\ page.doc = 3
    /\ page.map
    /\ page.listeners = 1
    /\ page.waiting = "none"
    /\ page.clicks = 3
    /\ page.calls = 1

----------------------------------------------------------------------------
(* Single-point completion, archived trajectories, place search *)

\* the step is the answer Yes to the single-point prompt of finish
FinishConfirmed ==
    /\ op' = "finish_current_trajectory_reply"
    /\ \E ok \in SaveOutcomes :
           finish_current_trajectory_reply_with("Yes", ok)

\* the step is the answer No to the single-point prompt of finish
FinishDeclined ==
    /\ op' = "finish_current_trajectory_reply"
    /\ \E ok \in SaveOutcomes :
           finish_current_trajectory_reply_with("No", ok)

\* C21 as stated: finishCurrent on a currentTrajectory of exactly one
\* point archives nothing before it is confirmed (it asks, and until the
\* answer the trajectories are as they were and nothing is published); on
\* the answer Yes the one-point trajectory is appended to
\* completedTrajectories and currentTrajectory becomes empty; on the answer
\* No both collections are unchanged and no map is published.
C21_SinglePointNeedsConfirmation ==
    [][/\ (op' = "finish_current_trajectory"
              /\ Len(current_trajectory) = 1)
              => /\ dialog' = <<"question", "Single Point Trajectory">>
                 /\ UNCHANGED <<completed_trajectories, current_trajectory,
                                map_view>>
                 /\ rendered' = FALSE
       /\ FinishConfirmed
              => /\ Len(current_trajectory) = 1
                 /\ Archived
       /\ FinishDeclined
              => /\ UNCHANGED <<completed_trajectories, current_trajectory,
                                map_view>>
                 /\ rendered' = FALSE
      ]_vars

\* C22: every trajectory in completedTrajectories has at least one point;
\* an empty trajectory is only ever the value of currentTrajectory.
C22_ArchivedNonEmpty ==
    \A i \in 1..Len(completed_trajectories) :
        Len(completed_trajectories[i]) >= 1

\* C22 witness: finish was pressed on an empty currentTrajectory after a
\* one-point and another trajectory were archived, and archived nothing
C22_Witness ==
    /\ op = "finish_current_trajectory"
    /\ dialog = <<"information", "No Trajectory">>
    /\ current_trajectory = <<>>
    /\ Len(completed_trajectories) = 2
    /\ Len(completed_trajectories[1]) = 1
    /\ Len(completed_trajectories[2]) >= 1

\* the step is the continuation of a search whose lookup answers `result`
SearchAnswers(result) ==
    /\ op' = "search_place_resume"
    /\ \E ok \in SaveOutcomes : search_place_resume_with(result, ok)

\* C23: no step of a place search (its start, with an empty or a given
\* place name, and its continuation on a found, not-found or failed
\* lookup) changes completedTrajectories, currentTrajectory or the
\* click-capture flag. A found result publishes a map centred on the found
\* location at zoom 15 whose elements are one search marker followed by
\* the scene of the unchanged trajectories, and the marker is one-off: no
\* document published by another handler holds it. The start of a search
\* and a not-found or failed lookup publish nothing.
C23_SearchKeepsTrajectories ==
    [][/\ op' \in {"search_place", "search_place_resume"}
              => UNCHANGED <<completed_trajectories, current_trajectory,
                             click_mode_enabled>>
       /\ op' = "search_place"
              => /\ UNCHANGED map_view
                 /\ rendered' = FALSE
       /\ \A result \in GeocodeResults :
              SearchAnswers(result)
                  => IF result[1] = "found"
                     THEN /\ rendered'
                          /\ ViewCentre' = <<<<result[2].latitude,
                                               result[2].longitude>>, 15>>
                          /\ map_children(map_view') =
                                 <<search_marker(result[2])>> \o StoreScene'
                     ELSE /\ UNCHANGED map_view
                          /\ rendered' = FALSE
       /\ (rendered' /\ op' # "search_place_resume")
              => map_view'.marker = <<>>
      ]_vars

\* C23 witness: a search found its place while one trajectory was archived
\* and two points were being drawn; the document shows the search marker
\* before the trajectories, which are still in the store
C23_Witness ==
    /\ op = "search_place_resume"
    /\ rendered
    /\ info_label = <<"found", TimesSquare.address>>
    /\ Len(completed_trajectories) = 1
    /\ Len(current_trajectory) = 2
    /\ click_mode_enabled
    /\ map_view.marker = <<search_marker(TimesSquare)>>
    /\ map_children(map_view) = map_view.marker \o StoreScene
    /\ Len(map_children(map_view)) > 3

====
